---- MODULE Spec2Model ----
(***************************************************************************)
(* A model of app.py, the content-calendar pipeline: the resilient HTTP    *)
(* session (create_session), the generation adapter (generate_content),    *)
(* the search adapter (search_web), the resource aggregator                *)
(* (generate_resources_for_topic), the topic extraction and the            *)
(* orchestrator (create_content_calendar).                                 *)
(*                                                                         *)
(* A Python str is a sequence of one-character strings, a list is a        *)
(* sequence, a dict is a function whose domain is its key set.             *)
(***************************************************************************)
EXTENDS Integers, Sequences, FiniteSets, TLC

VARIABLES
    \* ---- one run of create_content_calendar
    pc,              \* the statement the run is at
    outcome,         \* "running", "returned", or "raised" (an exception left the function)
    industry, target_audience, content_goals,   \* the arguments
    now,             \* the wall clock, in seconds
    start_time,      \* line 276
    trends, strategy, briefs,                   \* lines 288, 302, 317
    topics,          \* line 321
    topicIdx,        \* position of the loop of line 329 in topics
    resources,       \* line 328
    result,          \* the returned dict
    calls,           \* what the run did to the outside: requests issued and sleeps
    \* ---- the topic extraction applied to one strategy text
    exText,          \* a strategy text
    exChunks,        \* the pieces it was put together from
    exOut,           \* what lines 321-325 make of it
    \* ---- calls of generate_content / search_pixabay through a session
    callPc,          \* where the current call is
    callFn,          \* "generate_content" or "search_pixabay"
    callScript,      \* what the backend answers, attempt by attempt
    callBody,        \* the JSON document of a 200 answer
    callAttempts,    \* requests sent to the backend by the current call
    callRetry,       \* the Retry object's remaining total
    callSend,        \* what session.post / session.get produced
    callReturn,      \* what the call returned or raised
    sessions,        \* every session created so far: "open" or "closed"
    callCount,       \* calls completed
    \* ---- main's button handler and the timer thread it starts
    mainPc,          \* where the handler is
    main_start_time, \* line 403
    main_result,     \* line 416
    wall,            \* the wall clock, in half seconds
    timerPc,         \* where update_timer is
    elapsed,         \* line 408
    timerWake,       \* when the sleep of line 410 is over
    timer_container, \* what the timer element of the page shows
    timerWrites      \* updates of the timer element made by update_timer

pipeVars == <<pc, outcome, industry, target_audience, content_goals, now, start_time,
              trends, strategy, briefs, topics, topicIdx, resources, result,
              calls>>
exVars   == <<exText, exChunks, exOut>>
callVars == <<callPc, callFn, callScript, callBody, callAttempts, callRetry, callSend,
              callReturn, sessions, callCount>>
mainVars == <<mainPc, main_start_time, main_result, wall, timerPc, elapsed, timerWake,
              timer_container, timerWrites>>
vars     == <<pipeVars, exVars, callVars, mainVars>>

----------------------------------------------------------------------------
(* Bounds of the model *)

MaxHits   == 1   \* results in one search response
MaxChunks == 6   \* pieces a strategy text under test is built from
MaxCalls  == 2   \* adapter calls made one after another
MaxWall   == 4   \* half seconds the wall clock is followed for
MaxTicks  == 3   \* updates of the timer element that are followed

----------------------------------------------------------------------------
(* Python str operations *)

EmptyDict == [k \in {} |-> <<>>]

Whitespace == {" ", "\t", "\r"}

\* str.startswith
StartsWith(s, p) == Len(s) >= Len(p) /\ SubSeq(s, 1, Len(p)) = p

HasChar(s, c) == \E i \in 1..Len(s) : s[i] = c

FirstIndex(s, c) == CHOOSE i \in 1..Len(s) : s[i] = c /\ \A j \in 1..(i - 1) : s[j] # c

\* str.split(c): every segment between occurrences of c, at least one segment
RECURSIVE Split(_, _)
Split(s, c) ==
    IF ~HasChar(s, c) THEN <<s>>
    ELSE LET i == FirstIndex(s, c)
         IN  <<SubSeq(s, 1, i - 1)>> \o Split(SubSeq(s, i + 1, Len(s)), c)

RECURSIVE LStrip(_)
LStrip(s) == IF s # <<>> /\ Head(s) \in Whitespace THEN LStrip(Tail(s)) ELSE s

RECURSIVE RStrip(_)
RStrip(s) ==
    IF s # <<>> /\ s[Len(s)] \in Whitespace THEN RStrip(SubSeq(s, 1, Len(s) - 1)) ELSE s

\* str.strip()
Strip(s) == LStrip(RStrip(s))

----------------------------------------------------------------------------
(* Topic extraction, create_content_calendar lines 321-325 *)

DayMarker == <<"D", "a", "y">>

\* line 324: line.split(':')[1].split('-')[0].strip(); the index [1] raises
\* IndexError when the line has no colon
LineTopic(line) ==
    LET parts == Split(line, ":")
    IN  IF Len(parts) < 2
        THEN [raised |-> TRUE,  topic |-> <<>>]
        ELSE [raised |-> FALSE, topic |-> Strip(Split(parts[2], "-")[1])]

\* the loop of lines 322-325 over the lines still to visit, acc the topics so far
RECURSIVE ExtractLoop(_, _)
ExtractLoop(lines, acc) ==
    IF lines = <<>> THEN [raised |-> FALSE, topics |-> acc]
    ELSE IF StartsWith(Head(lines), DayMarker)
         THEN LET t == LineTopic(Head(lines))
              IN  IF t.raised THEN [raised |-> TRUE, topics |-> <<>>]
                  ELSE ExtractLoop(Tail(lines), Append(acc, t.topic))
         ELSE ExtractLoop(Tail(lines), acc)

ExtractTopics(text) == ExtractLoop(Split(text, "\n"), <<>>)

----------------------------------------------------------------------------
(* The session of create_session, lines 94-105: requests.Session with an   *)
(* HTTPAdapter whose max_retries is urllib3's Retry(total=3,               *)
(* backoff_factor=1, status_forcelist=[500, 502, 503, 504]).               *)

\* What the backend does to one attempt of a request
Status(c)      == [kind |-> "status", code |-> c]
ConnectError   == [kind |-> "connect_error", code |-> 0]
ConnectTimeout == [kind |-> "connect_timeout", code |-> 0]
ReadTimeout    == [kind |-> "read_timeout", code |-> 0]

retry_total      == 3
backoff_factor   == 1
status_forcelist == {500, 502, 503, 504}

\* Retry is built without allowed_methods, so urllib3's default applies: a
\* response status or a read error is retried for these methods only
allowed_methods == {"HEAD", "GET", "PUT", "DELETE", "OPTIONS", "TRACE"}

\* A script long enough for every attempt the session can make
MaxAttempts == retry_total + 1

\* Retry.increment and HTTPAdapter.send on one attempt that met ev with `total`
\* retries left: total counts RETRIES (it is exhausted when it falls below 0), a
\* connect error is retried for every method, a forcelisted status and a read
\* timeout only for allowed_methods; requests turns exhaustion into RetryError
\* (status), ConnectTimeout (connect timeout) or ConnectionError (anything else)
RetryDecision(method, total, ev) ==
    LET again(exhausted) ==
            IF total - 1 < 0
            THEN [next |-> "raise", total |-> total - 1, status |-> 0, exc |-> exhausted]
            ELSE [next |-> "retry", total |-> total - 1, status |-> 0, exc |-> "none"]
    IN  CASE ev.kind = "status" ->
                IF method \in allowed_methods /\ ev.code \in status_forcelist
                THEN again("RetryError")
                ELSE [next |-> "response", total |-> total, status |-> ev.code,
                      exc |-> "none"]
          [] ev.kind = "connect_error"   -> again("ConnectionError")
          [] ev.kind = "connect_timeout" -> again("ConnectTimeout")
          [] ev.kind = "read_timeout" ->
                IF method \in allowed_methods
                THEN again("ConnectionError")
                ELSE [next |-> "raise", total |-> total, status |-> 0,
                      exc |-> "ReadTimeout"]

\* session.post / session.get against a scripted backend: n attempts were made
RECURSIVE SendFrom(_, _, _, _)
SendFrom(method, script, total, n) ==
    LET d == RetryDecision(method, total, script[n + 1])
    IN  IF d.next = "retry"
        THEN SendFrom(method, script, d.total, n + 1)
        ELSE [kind |-> d.next, status |-> d.status, exc |-> d.exc, attempts |-> n + 1]

SessionSend(method, script) == SendFrom(method, script, retry_total, 0)

----------------------------------------------------------------------------
(* Exceptions: the class decides which except clause catches it, msg is     *)
(* str(e), a sequence of literal pieces and embedded JSON documents.        *)

Lit(s)   == [s |-> s]
Json(d)  == [json |-> d]

Bases(cls) ==
    CASE cls = "ConnectionError" -> {"ConnectionError", "RequestException", "Exception"}
      [] cls = "ConnectTimeout"  -> {"ConnectTimeout", "ConnectionError", "Timeout",
                                     "RequestException", "Exception"}
      [] cls = "ReadTimeout"     -> {"ReadTimeout", "Timeout", "RequestException",
                                     "Exception"}
      [] cls = "HTTPError"       -> {"HTTPError", "RequestException", "Exception"}
      [] cls = "RetryError"      -> {"RetryError", "RequestException", "Exception"}
      [] cls = "KeyError"        -> {"KeyError", "LookupError", "Exception"}
      [] cls = "IndexError"      -> {"IndexError", "LookupError", "Exception"}
      [] OTHER                   -> {"Exception"}

IsInstance(e, cls) == cls \in Bases(e.cls)

\* the exception requests raises for a failed send
TransportException(cls) == [cls |-> cls, msg |-> <<Lit(cls)>>]

\* response.raise_for_status(), lines 155 and 200
IsErrorStatus(code) == 400 <= code /\ code < 600

HTTPError(code) == [cls |-> "HTTPError", msg |-> <<Lit("HTTP error status"), Lit(ToString(code))>>]

----------------------------------------------------------------------------
(* generate_content, lines 165-224 *)

\* lines 203-212 on the parsed JSON document
ExtractText(body) ==
    IF "choices" \in DOMAIN body /\ Len(body.choices) > 0
    THEN LET first == body.choices[1]
         IN  IF "message" \in DOMAIN first /\ "content" \in DOMAIN first.message
             THEN [raised |-> FALSE, value |-> first.message.content]
             ELSE [raised |-> TRUE,
                   exc |-> [cls |-> "KeyError", msg |-> <<Lit("'message'")>>]]
    ELSE IF "response" \in DOMAIN body
    THEN [raised |-> FALSE, value |-> body.response]
    ELSE IF "text" \in DOMAIN body
    THEN [raised |-> FALSE, value |-> body.text]
    ELSE IF "content" \in DOMAIN body
    THEN [raised |-> FALSE, value |-> body.content]
    ELSE [raised |-> TRUE,
          exc |-> [cls |-> "Exception",
                   msg |-> <<Lit("Unexpected API response format: "), Json(body)>>]]

\* the try body from line 200 on, given what session.post produced
GenerateBody(sent, body) ==
    IF sent.kind = "raise" THEN [raised |-> TRUE, exc |-> TransportException(sent.exc)]
    ELSE IF IsErrorStatus(sent.status) THEN [raised |-> TRUE, exc |-> HTTPError(sent.status)]
    ELSE ExtractText(body)

\* the except clauses of lines 214-221, in their order
GenerateExcept(e) ==
    IF IsInstance(e, "ConnectionError")
    THEN [cls |-> "Exception",
          msg |-> <<Lit("Network connection error. Please check your internet connection and try again.")>>]
    ELSE IF IsInstance(e, "Timeout")
    THEN [cls |-> "Exception", msg |-> <<Lit("Request timed out. Please try again.")>>]
    ELSE IF IsInstance(e, "RequestException")
    THEN [cls |-> "Exception", msg |-> <<Lit("Error making request: ")>> \o e.msg]
    ELSE [cls |-> "Exception", msg |-> <<Lit("Error generating content: ")>> \o e.msg]

NoError == [cls |-> "none", msg |-> <<>>]

\* what the call hands to its caller
GenerateReturn(sent, body) ==
    LET r == GenerateBody(sent, body)
    IN  IF r.raised
        THEN [ok |-> FALSE, value |-> <<>>, error |-> GenerateExcept(r.exc)]
        ELSE [ok |-> TRUE,  value |-> r.value, error |-> NoError]

\* the whole call against a backend that answers backend.script attempt by
\* attempt and sends backend.body with a 200
generate_content(prompt, backend) ==
    GenerateReturn(SessionSend("POST", backend.script), backend.body)

----------------------------------------------------------------------------
(* search_pixabay, lines 136-163 *)

PixabayReturn(sent, body) ==
    IF sent.kind = "raise" \/ IsErrorStatus(sent.status) THEN <<>>
    ELSE IF "hits" \in DOMAIN body THEN body.hits ELSE <<>>

----------------------------------------------------------------------------
(* search_web, lines 107-134 *)

Get(d, k, default) == IF k \in DOMAIN d THEN d[k] ELSE default

\* lines 117-120: the engine the vertical selects
Engine(search_type) ==
    IF search_type = "scholar" THEN "google_scholar"
    ELSE IF search_type = "videos" THEN "youtube"
    ELSE "google"

\* lines 125-130: the key of the response the vertical reads
ResultsKey(search_type) ==
    IF search_type = "scholar" THEN "organic_results"
    ELSE IF search_type = "videos" THEN "video_results"
    ELSE "organic_results"

\* the whole function against a backend that either makes GoogleSearch raise
\* or answers backend.results: every exception is swallowed into []
search_web(query, search_type, backend) ==
    IF backend.raises THEN <<>>
    ELSE Get(backend.results, ResultsKey(search_type), <<>>)

----------------------------------------------------------------------------
(* generate_resources_for_topic, lines 226-271 *)

ResourceKeys == {"research", "videos", "tools", "stats"}

\* a bundle whose keys are created only when a search has results
EmptyBundleNoStats == [research |-> <<>>, videos |-> <<>>, tools |-> <<>>]

\* line 228
EmptyBundle == [research |-> <<>>, videos |-> <<>>, tools |-> <<>>, stats |-> <<>>]

\* the four searches in the order of lines 236, 245, 254 and 263
SubSearches ==
    << [key |-> "research", suffix |-> " research papers articles",   search_type |-> "scholar"],
       [key |-> "videos",   suffix |-> " tutorial guide",             search_type |-> "videos"],
       [key |-> "tools",    suffix |-> " tools software applications", search_type |-> "general"],
       [key |-> "stats",    suffix |-> " statistics data facts",      search_type |-> "general"] >>

\* the dict appended for one search result: lines 238-242, 247-251, 256-260, 265-269
ResourceEntry(key, r) ==
    CASE key = "research" -> [title |-> Get(r, "title", ""), link |-> Get(r, "link", ""),
                              snippet |-> Get(r, "snippet", "")]
      [] key = "videos"   -> [title |-> Get(r, "title", ""), link |-> Get(r, "link", ""),
                              thumbnail |-> Get(r, "thumbnail", "")]
      [] key = "tools"    -> [name |-> Get(r, "title", ""), link |-> Get(r, "link", ""),
                              description |-> Get(r, "snippet", "")]
      [] key = "stats"    -> [title |-> Get(r, "title", ""), link |-> Get(r, "link", ""),
                              snippet |-> Get(r, "snippet", "")]

\* the for loops of lines 237, 246, 255 and 264
RECURSIVE AppendResults(_, _, _)
AppendResults(b, key, results) ==
    IF results = <<>> THEN b
    ELSE AppendResults([b EXCEPT ![key] = Append(@, ResourceEntry(key, Head(results)))],
                       key, Tail(results))

\* the query of the j-th search for a topic: the f-strings of lines 236-263
Query(topic, j) == [topic |-> topic, suffix |-> SubSearches[j].suffix]

\* what the j-th search_web call returns, backends[j] being the backend behind it
Found(topic, backends, j) ==
    search_web(Query(topic, j), SubSearches[j].search_type, backends[j])

\* lines 228-271, searches[n] being what the n-th search returned
RECURSIVE FillBundle(_, _, _)
FillBundle(b, searches, j) ==
    IF j > Len(SubSearches) THEN b
    ELSE FillBundle(AppendResults(b, SubSearches[j].key, searches[j]), searches, j + 1)

\* the whole function: the bundle it returns
generate_resources_for_topic(topic, backends) ==
    FillBundle(EmptyBundle, [j \in 1..Len(SubSearches) |-> Found(topic, backends, j)], 1)

\* the search requests it issues, in order
SearchRequests(topic, backends) ==
    [j \in 1..Len(SubSearches) |->
        [op |-> "search", query |-> Query(topic, j),
         search_type |-> SubSearches[j].search_type,
         failed |-> backends[j].raises, returned |-> Found(topic, backends, j)]]

----------------------------------------------------------------------------
(* create_content_calendar, lines 273-344 *)

\* the f-strings of lines 279, 292 and 306: the template and what it embeds
research_prompt(ind, aud, goals) ==
    [template |-> "research", industry |-> ind, target_audience |-> aud,
     content_goals |-> goals]
strategy_prompt_first_char(tr, aud) ==
    [template |-> "strategy", research |-> SubSeq(tr, 1, 1), target_audience |-> aud]
strategy_prompt(tr, aud) ==
    [template |-> "strategy", research |-> tr, target_audience |-> aud]
brief_prompt(st) == [template |-> "briefs", calendar |-> st]

\* a narrower clause, except requests.exceptions.RequestException
CaughtRequestErrorsOnly(e) == IsInstance(e, "RequestException")

\* line 343: except Exception
Caught(e) == IsInstance(e, "Exception")

\* an error record that keeps the text generated before the failure
ErrorResultWithTrends(e) == [error |-> e.msg, trends |-> trends]

\* line 344
ErrorResult(e) == [error |-> e.msg]

\* lines 335-341
SuccessResult(tr, st, br, res, secs) ==
    [trends |-> tr, strategy |-> st, briefs |-> br, resources |-> res,
     execution_time |-> secs]

\* a dict created anew for every topic, so that only the last bundle is kept
SetItemInFreshDict(d, k, v) == [x \in {k} |-> v]

\* line 330: resources[topic] = ...
SetItem(d, k, v) == [x \in DOMAIN d \cup {k} |-> IF x = k THEN v ELSE d[x]]

IndexError == [cls |-> "IndexError", msg |-> <<Lit("list index out of range")>>]

----------------------------------------------------------------------------
(* The outside world of a run: the arguments and the stubbed backends *)

Industries == {"Fitness"}
Audiences  == {"busy professionals"}
Goals      == {"increase brand awareness"}

NewLine == <<"\n">>

\* "Day <n>:<topic>-v-r", a day line in the format the strategy prompt asks for
DayLine(n, topic) == DayMarker \o <<" ", n, ":">> \o topic \o <<"-", "v", "-", "r">>

TrendsTexts == {<<"T", "1">>, <<"T", "2">>}
BriefsTexts == {<<"B", "1">>}

StrategyTexts ==
    { \* two well-formed day lines, spaces around the fields
      DayMarker \o <<" ", "1", ":", " ", "A", " ", "-", " ", "v", " ", "-", " ", "r">>
          \o NewLine \o DayLine("2", <<"B">>),
      \* the same topic on two days, the second day line without a hyphen
      DayLine("1", <<"A">>) \o NewLine \o DayMarker \o <<" ", "2", ":", "A">>,
      \* a line that is no day line, then a day line
      <<"x">> \o NewLine \o DayLine("1", <<"A">>),
      \* a day line without a colon between two well-formed ones
      DayLine("1", <<"A">>) \o NewLine \o DayMarker \o <<" ", "2", " ", "B", "-", "v">>
          \o NewLine \o DayLine("3", <<"C">>),
      \* a topic that holds a colon
      DayLine("1", <<"A", ":", "B">>),
      \* no day line at all
      <<"x">> }

\* JSON documents of the generation backend that carry text t
ChoicesBody(t)  == [id |-> "gen", choices |-> <<[message |-> [role |-> "assistant", content |-> t]]>>]
ResponseBody(t) == [id |-> "gen", response |-> t]
\* and documents that carry none
ErrorBody       == [id |-> "gen", error |-> "rate limited"]
NoMessageBody   == [id |-> "gen", choices |-> <<[finish_reason |-> "error"]>>]

\* the generation backend of one stage: how it answers each attempt, and the
\* document it sends with a 200
GenBackends(texts) ==
    {[script |-> s, body |-> b] :
        s \in {<<Status(200)>>, <<ConnectError, Status(200)>>},
        b \in {ChoicesBody(t) : t \in texts} \cup {ResponseBody(t) : t \in texts}
              \cup {ErrorBody, NoMessageBody}}
    \cup
    {[script |-> s, body |-> ErrorBody] :
        s \in {<<Status(503)>>, <<Status(404)>>, <<ReadTimeout>>,
               <<ConnectError, ConnectError, ConnectError, ConnectError>>,
               <<ConnectTimeout, ConnectTimeout, ConnectTimeout, ConnectTimeout>>}}

\* one search result as the search backend sends it: no snippet, no thumbnail
Hit == [title |-> "t", link |-> "l"]

HitLists == {[i \in 1..n |-> Hit] : n \in 0..MaxHits}

\* the search backend behind one search_web call: GoogleSearch raises, or
\* answers an error document, or answers the engine's result list
SearchBackends(engine) ==
    {[raises |-> TRUE, results |-> [error |-> "unreachable"]],
     [raises |-> FALSE, results |-> [error |-> "quota exceeded"]]}
    \cup
    {[raises |-> FALSE,
      results |-> IF engine = "youtube" THEN [video_results |-> h]
                  ELSE [organic_results |-> h]] : h \in HitLists}

----------------------------------------------------------------------------
(* The run of create_content_calendar, statement by statement *)

PipeInit ==
    /\ pc = "start"
    /\ outcome = "running"
    /\ industry \in Industries
    /\ target_audience \in Audiences
    /\ content_goals \in Goals
    /\ now = 0
    /\ start_time = 0
    /\ trends = <<>> /\ strategy = <<>> /\ briefs = <<>>
    /\ topics = <<>>
    /\ topicIdx = 1
    /\ resources = EmptyDict
    /\ result = EmptyDict
    /\ calls = <<>>

\* the other two machines at rest
NoSend   == [kind |-> "none", status |-> 0, exc |-> "none", attempts |-> 0]
NoReturn == [ok |-> TRUE, value |-> <<>>, error |-> NoError]
ExIdle   == exText = <<>> /\ exChunks = 0 /\ exOut = [raised |-> FALSE, topics |-> <<>>]
CallIdle ==
    /\ callPc = "idle" /\ callFn = "none" /\ callScript = <<>> /\ callBody = ErrorBody
    /\ callAttempts = 0 /\ callRetry = retry_total
    /\ callSend = NoSend
    /\ callReturn = NoReturn
    /\ sessions = <<>> /\ callCount = 0

\* lines 343-344: an exception raised in the try body ends the run; the clause
\* catches it and returns the error record, anything it does not catch leaves
\* the function
Abort(e) ==
    /\ pc' = "done"
    /\ IF Caught(e)
       THEN outcome' = "returned" /\ result' = ErrorResult(e)
       ELSE outcome' = "raised" /\ UNCHANGED result

\* line 276
Begin ==
    /\ pc = "start"
    /\ start_time' = now
    /\ pc' = "trends"
    /\ UNCHANGED <<outcome, industry, target_audience, content_goals, now, trends,
                   strategy, briefs, topics, topicIdx, resources,
                   result, calls>>
    /\ UNCHANGED <<exVars, callVars, mainVars>>

\* lines 279-288
ResearchTrends ==
    /\ pc = "trends"
    /\ \E be \in GenBackends(TrendsTexts) :
         LET p == research_prompt(industry, target_audience, content_goals)
             r == generate_content(p, be)
         IN  /\ calls' = Append(calls, [op |-> "generate", prompt |-> p, ok |-> r.ok,
                                        text |-> r.value, error |-> r.error.msg])
             /\ IF r.ok
                THEN trends' = r.value /\ pc' = "trends_sleep" /\ UNCHANGED <<outcome, result>>
                ELSE Abort(r.error) /\ UNCHANGED trends
    /\ UNCHANGED <<industry, target_audience, content_goals, now, start_time, strategy,
                   briefs, topics, topicIdx, resources>>
    /\ UNCHANGED <<exVars, callVars, mainVars>>

\* lines 292-302
CreateStrategy ==
    /\ pc = "strategy"
    /\ \E be \in GenBackends(StrategyTexts) :
         LET p == strategy_prompt(trends, target_audience)
             r == generate_content(p, be)
         IN  /\ calls' = Append(calls, [op |-> "generate", prompt |-> p, ok |-> r.ok,
                                        text |-> r.value, error |-> r.error.msg])
             /\ IF r.ok
                THEN strategy' = r.value /\ pc' = "strategy_sleep"
                     /\ UNCHANGED <<outcome, result>>
                ELSE Abort(r.error) /\ UNCHANGED strategy
    /\ UNCHANGED <<industry, target_audience, content_goals, now, start_time, trends,
                   briefs, topics, topicIdx, resources>>
    /\ UNCHANGED <<exVars, callVars, mainVars>>

\* lines 306-317
CreateBriefs ==
    /\ pc = "briefs"
    /\ \E be \in GenBackends(BriefsTexts) :
         LET p == brief_prompt(strategy)
             r == generate_content(p, be)
         IN  /\ calls' = Append(calls, [op |-> "generate", prompt |-> p, ok |-> r.ok,
                                        text |-> r.value, error |-> r.error.msg])
             /\ IF r.ok
                THEN briefs' = r.value /\ pc' = "briefs_sleep" /\ UNCHANGED <<outcome, result>>
                ELSE Abort(r.error) /\ UNCHANGED briefs
    /\ UNCHANGED <<industry, target_audience, content_goals, now, start_time, trends,
                   strategy, topics, topicIdx, resources>>
    /\ UNCHANGED <<exVars, callVars, mainVars>>

\* the statement after each time.sleep(1)
AfterSleep(at) ==
    CASE at = "trends_sleep"   -> "strategy"
      [] at = "strategy_sleep" -> "briefs"
      [] at = "briefs_sleep"   -> "extract"

\* lines 289, 303 and 318: time.sleep(1)
RateLimit ==
    /\ pc \in {"trends_sleep", "strategy_sleep", "briefs_sleep"}
    /\ now' = now + 1
    /\ calls' = Append(calls, [op |-> "sleep", secs |-> 1])
    /\ pc' = AfterSleep(pc)
    /\ UNCHANGED <<outcome, industry, target_audience, content_goals, start_time, trends,
                   strategy, briefs, topics, topicIdx, resources,
                   result>>
    /\ UNCHANGED <<exVars, callVars, mainVars>>

\* lines 321-325 and line 328
ExtractStep ==
    /\ pc = "extract"
    /\ LET r == ExtractTopics(strategy)
       IN  IF r.raised
           THEN Abort(IndexError) /\ UNCHANGED <<topics, topicIdx, resources>>
           ELSE /\ topics' = r.topics
                /\ topicIdx' = 1
                /\ resources' = EmptyDict
                /\ pc' = "loop"
                /\ UNCHANGED <<outcome, result>>
    /\ UNCHANGED <<industry, target_audience, content_goals, now, start_time, trends,
                   strategy, briefs, calls>>
    /\ UNCHANGED <<exVars, callVars, mainVars>>

\* lines 329-330: the loop takes the next topic, generate_resources_for_topic
\* runs its four searches and the bundle it returns is stored under the topic
GatherTopic ==
    /\ pc = "loop"
    /\ topicIdx <= Len(topics)
    /\ \E b1 \in SearchBackends(Engine(SubSearches[1].search_type)),
          b2 \in SearchBackends(Engine(SubSearches[2].search_type)),
          b3 \in SearchBackends(Engine(SubSearches[3].search_type)),
          b4 \in SearchBackends(Engine(SubSearches[4].search_type)) :
         LET topic    == topics[topicIdx]
             backends == <<b1, b2, b3, b4>>
         IN  /\ resources' = SetItem(resources, topic,
                                     generate_resources_for_topic(topic, backends))
             /\ calls' = calls \o SearchRequests(topic, backends)
    /\ pc' = "topic_sleep"
    /\ UNCHANGED <<outcome, industry, target_audience, content_goals, now, start_time,
                   trends, strategy, briefs, topics, topicIdx, result>>
    /\ UNCHANGED <<exVars, callVars, mainVars>>

\* line 331: time.sleep(2), then the loop goes on
TopicSleep ==
    /\ pc = "topic_sleep"
    /\ now' = now + 2
    /\ calls' = Append(calls, [op |-> "sleep", secs |-> 2])
    /\ topicIdx' = topicIdx + 1
    /\ pc' = "loop"
    /\ UNCHANGED <<outcome, industry, target_audience, content_goals, start_time, trends,
                   strategy, briefs, topics, resources, result>>
    /\ UNCHANGED <<exVars, callVars, mainVars>>

\* lines 333-341
Finish ==
    /\ pc = "loop"
    /\ topicIdx > Len(topics)
    /\ result' = SuccessResult(trends, strategy, briefs, resources, now - start_time)
    /\ outcome' = "returned"
    /\ pc' = "done"
    /\ UNCHANGED <<industry, target_audience, content_goals, now, start_time, trends,
                   strategy, briefs, topics, topicIdx, resources,
                   calls>>
    /\ UNCHANGED <<exVars, callVars, mainVars>>

\* main before the button is pressed
Blank == [kind |-> "blank"]
NoResult == [pending |-> TRUE]
MainIdle ==
    /\ mainPc = "idle" /\ main_start_time = 0 /\ main_result = NoResult
    /\ wall = 0
    /\ timerPc = "unstarted" /\ elapsed = 0 /\ timerWake = 0
    /\ timer_container = Blank
    /\ timerWrites = 0

Init == PipeInit /\ ExIdle /\ CallIdle /\ MainIdle

Next ==
    \/ Begin
    \/ ResearchTrends
    \/ CreateStrategy
    \/ CreateBriefs
    \/ RateLimit
    \/ ExtractStep
    \/ GatherTopic
    \/ TopicSleep
    \/ Finish

Spec == Init /\ [][Next]_vars

----------------------------------------------------------------------------
(* Properties of the run of create_content_calendar *)

SuccessKeys == {"trends", "strategy", "briefs", "resources", "execution_time"}

Range(f) == {f[x] : x \in DOMAIN f}

\* the generation requests among the first i things the run did
GenCount(i) == Cardinality({m \in 1..i : calls[m].op = "generate"})

\* the search requests of the run, in the order issued
Searches == SelectSeq(calls, LAMBDA e : e.op = "search")

\* C1: create_content_calendar never lets an exception out, and what it returns
\* is either the success record (trends, strategy, briefs, resources,
\* execution_time and no error key) or the record holding only the error key
C1_ResultIsOneOfTwoShapes ==
    /\ outcome # "raised"
    /\ pc = "done" => outcome = "returned"
    /\ outcome = "returned" =>
          \/ DOMAIN result = SuccessKeys
          \/ DOMAIN result = {"error"}
    /\ "error" \in DOMAIN result => DOMAIN result \cap SuccessKeys = {}

\* a run that generated all three texts and then failed: only the error is returned
C1_Witness ==
    /\ outcome = "returned"
    /\ DOMAIN result = {"error"}
    /\ trends # <<>> /\ strategy # <<>> /\ briefs # <<>>

\* C2: a failed generate_content ends the run at once: nothing is requested (or
\* slept) after it, and the result is the error record with that failure's
\* message and none of the texts of the earlier stages
C2_GenerationFailureAborts ==
    \A i \in 1..Len(calls) :
        (calls[i].op = "generate" /\ ~calls[i].ok) =>
            /\ i = Len(calls)
            /\ pc = "done"
            /\ outcome = "returned"
            /\ DOMAIN result = {"error"}
            /\ result.error = calls[i].error
            /\ result.error # <<>>

\* the briefs request failed after trends and strategy had been generated
C2_Witness ==
    /\ Len(calls) = 5
    /\ calls[5].op = "generate" /\ ~calls[5].ok
    /\ calls[5].prompt.template = "briefs"
    /\ trends # <<>> /\ strategy # <<>>

StageTemplates == <<"research", "strategy", "briefs">>

\* C3: the generation requests are issued in the order trends, strategy, briefs,
\* each after the previous one returned successfully and a 1-second sleep
\* followed it; the strategy prompt embeds the trends text the first request
\* returned and the briefs prompt the strategy text the second returned; topics
\* are extracted, and searches issued, only after the briefs request returned,
\* and every search is for an extracted topic
C3_StagesInOrder ==
    /\ \A i \in 1..Len(calls) :
          calls[i].op = "generate" =>
              LET k == GenCount(i)
              IN  /\ k <= 3
                  /\ calls[i].prompt.template = StageTemplates[k]
                  /\ k = 1 => i = 1
                  /\ k > 1 =>
                        /\ i >= 3
                        /\ calls[i - 1] = [op |-> "sleep", secs |-> 1]
                        /\ calls[i - 2].op = "generate"
                        /\ calls[i - 2].ok
                        /\ k = 2 => calls[i].prompt.research = calls[i - 2].text
                        /\ k = 3 => calls[i].prompt.calendar = calls[i - 2].text
    /\ \A j \in 1..Len(calls) :
          calls[j].op = "search" =>
              /\ \E i \in 1..(j - 1) :
                    /\ calls[i].op = "generate"
                    /\ calls[i].prompt.template = "briefs"
                    /\ calls[i].ok
              /\ calls[j].query.topic \in Range(topics)
    /\ (topics # <<>> \/ pc \in {"loop", "topic_sleep"}) =>
          /\ Len(calls) >= 6
          /\ calls[5].op = "generate" /\ calls[5].ok
          /\ calls[6] = [op |-> "sleep", secs |-> 1]

\* a run that went through all five stages for two topics
C3_Witness ==
    /\ pc = "done"
    /\ DOMAIN result = SuccessKeys
    /\ Len(topics) = 2
    /\ Len(Searches) = 8

\* the topics whose bundle has been stored
Stored == IF pc = "topic_sleep" THEN topicIdx ELSE topicIdx - 1

\* bundle b holds, under the key of the j-th search, what search entry e returned
HoldsResults(b, j, e) ==
    LET key  == SubSearches[j].key
        name == IF key = "tools" THEN "name" ELSE "title"
    IN  /\ Len(b[key]) = Len(e.returned)
        /\ \A n \in 1..Len(e.returned) :
              /\ b[key][n][name] = Get(e.returned[n], "title", "")
              /\ b[key][n].link = Get(e.returned[n], "link", "")
        /\ e.failed => b[key] = <<>>

\* C5: every bundle generate_resources_for_topic returned, so every value of
\* resources, has exactly the keys research, videos, tools and stats, each a
\* list; the list of a failed search is empty and the list of a search that
\* succeeded holds its results
C5_BundleHasFourLists ==
    /\ \A t \in DOMAIN resources :
          /\ DOMAIN resources[t] = ResourceKeys
          /\ \A k \in ResourceKeys : DOMAIN resources[t][k] = 1..Len(resources[t][k])
    /\ \A i \in 1..Stored :
          (\A m \in (i + 1)..Stored : topics[m] # topics[i]) =>
              \A j \in 1..4 :
                  HoldsResults(resources[topics[i]], j, Searches[4 * (i - 1) + j])

\* a stored bundle whose research search failed and whose videos search succeeded
C5_Witness ==
    /\ pc = "done"
    /\ \E i \in 1..Len(topics) :
          /\ Searches[4 * (i - 1) + 1].failed
          /\ ~Searches[4 * (i - 1) + 2].failed
          /\ resources[topics[i]].research = <<>>
          /\ resources[topics[i]].videos # <<>>

\* the run generated all three texts and slept after the third
GenerationSucceeded == Len(calls) >= 6

\* the searches for the i-th extracted topic
TopicSearches(i) == SubSeq(Searches, 4 * (i - 1) + 1, 4 * i)

\* C4: once the three generation stages have succeeded the run ends with the
\* success record whatever the searches do: every extracted topic is visited
\* and has its bundle, a topic whose searches all failed has the bundle of four
\* empty lists, a topic whose searches all returned results has none empty
C4_SearchFailuresNeverAbort ==
    (GenerationSucceeded /\ pc = "done") =>
        /\ DOMAIN result = SuccessKeys
        /\ Len(Searches) = 4 * Len(topics)
        /\ DOMAIN result.resources = Range(topics)
        /\ \A i \in 1..Len(topics) :
              (\A m \in (i + 1)..Len(topics) : topics[m] # topics[i]) =>
                  /\ (\A j \in 1..4 : TopicSearches(i)[j].failed) =>
                        result.resources[topics[i]] = EmptyBundle
                  /\ (\A j \in 1..4 : TopicSearches(i)[j].returned # <<>>) =>
                        \A k \in ResourceKeys : result.resources[topics[i]][k] # <<>>

----------------------------------------------------------------------------
(* The topic extraction the specification describes *)

Lines(text) == Split(text, "\n")

IsDayLine(line) == StartsWith(line, DayMarker)

\* a day line that lacks a colon, or lacks a hyphen
Malformed(line) == IsDayLine(line) /\ (~HasChar(line, ":") \/ ~HasChar(line, "-"))

AfterFirst(s, c)  == IF HasChar(s, c) THEN SubSeq(s, FirstIndex(s, c) + 1, Len(s)) ELSE <<>>
BeforeFirst(s, c) == IF HasChar(s, c) THEN SubSeq(s, 1, FirstIndex(s, c) - 1) ELSE s

\* split on the first colon, take of the remainder what precedes its first
\* hyphen, trim
ReferenceTopic(line) == Strip(BeforeFirst(AfterFirst(line, ":"), "-"))

MapSeq(s, Op(_)) == [i \in 1..Len(s) |-> Op(s[i])]

\* the topics of the day lines that are not malformed, in line order, the
\* topic of such a line being what line 324 makes of it
TopicOf(line) == LineTopic(line).topic

WellFormedTopics(text) ==
    MapSeq(SelectSeq(Lines(text), LAMBDA l : IsDayLine(l) /\ ~Malformed(l)), TopicOf)

\* C7: a malformed day line among well-formed ones does not make the extraction
\* raise or the run abort; it is skipped, and the topics are those of the
\* well-formed lines in their order
C7_MalformedLinesSkipped ==
    (GenerationSucceeded /\ pc \in {"loop", "topic_sleep", "done"}) =>
        /\ outcome # "raised"
        /\ "error" \notin DOMAIN result
        /\ topics = WellFormedTopics(strategy)

\* the run is in the loop of line 329, or has returned after it
ReachedGathering ==
    \/ pc \in {"loop", "topic_sleep"}
    \/ pc = "done" /\ outcome = "returned" /\ "resources" \in DOMAIN result

\* what the run did after the three generation stages and their delays
GatheringLog == SubSeq(calls, 7, Len(calls))

\* the run has gone through the whole loop and returned
GatheringDone == pc = "done" /\ outcome = "returned" /\ "resources" \in DOMAIN result

\* C11: generate_resources_for_topic is invoked once for each extracted topic,
\* in extraction order (its four searches carry that topic), a delay of two
\* seconds follows each invocation before the next one starts, and when the
\* run ends the keys of resources are exactly the extracted topics, a topic
\* extracted twice being gathered twice and stored once
C11_OneInvocationPerTopic ==
    ReachedGathering =>
        /\ \A i \in 1..Len(GatheringLog) :
              LET k == ((i - 1) \div 5) + 1
                  j == ((i - 1) % 5) + 1
                  e == GatheringLog[i]
              IN  /\ k <= Len(topics)
                  /\ IF j <= 4
                     THEN /\ e.op = "search"
                          /\ e.query = Query(topics[k], j)
                          /\ e.search_type = SubSearches[j].search_type
                     ELSE e = [op |-> "sleep", secs |-> 2]
        /\ Len(GatheringLog) <= 5 * Len(topics)
        /\ DOMAIN resources \subseteq Range(topics)
        /\ GatheringDone =>
              /\ Len(GatheringLog) = 5 * Len(topics)
              /\ DOMAIN result.resources = Range(topics)

\* a run over a strategy naming the same topic on two days has returned
C11_Witness ==
    /\ GatheringDone
    /\ Len(topics) = 2
    /\ topics[1] = topics[2]
    /\ Len(GatheringLog) = 10
    /\ Cardinality(DOMAIN result.resources) = 1

----------------------------------------------------------------------------
(* The topic extraction on strategy texts put together from pieces *)

Chunks ==
    { DayMarker \o <<" ", "1">>, <<":">>, <<" ">>, <<"A">>, <<"-">>, NewLine,
      <<" ", "-", " ", "v", " ", "-", " ", "r">> }

\* one more piece, and lines 321-325 on the text
ExtendText ==
    /\ exChunks < MaxChunks
    /\ \E c \in Chunks :
         /\ exText' = exText \o c
         /\ exOut' = ExtractTopics(exText \o c)
    /\ exChunks' = exChunks + 1
    /\ UNCHANGED <<pipeVars, callVars, mainVars>>

ExtractNext == ExtendText

ExtractSpec == Init /\ [][ExtractNext]_vars

\* s holds a character that is neither white space nor punctuation
HasWord(s) == \E i \in 1..Len(s) : s[i] \notin Whitespace \cup {":", "-"}

\* the line reads "Day N: <topic> - <type> - <rationale>", every field a word
MatchesFormat(line) ==
    /\ IsDayLine(line)
    /\ HasChar(line, ":")
    /\ LET fields == Split(AfterFirst(line, ":"), "-")
       IN  /\ Len(fields) >= 3
           /\ \A n \in 1..3 : HasWord(fields[n])

DayLines(text) == SelectSeq(Lines(text), IsDayLine)

\* C6: when every day line of the strategy text reads
\* "Day N: <topic> - <type> - <rationale>", the extraction returns one topic per
\* day line, in line order, each the trimmed text between the line's first colon
\* and the first hyphen after it
C6_TopicsMatchReference ==
    (\A n \in 1..Len(DayLines(exText)) : MatchesFormat(DayLines(exText)[n])) =>
        /\ ~exOut.raised
        /\ exOut.topics = MapSeq(DayLines(exText), ReferenceTopic)

----------------------------------------------------------------------------
(* Calls of generate_content and search_pixabay, step by step *)

AdapterFns == {"generate_content", "search_pixabay"}

\* line 194: session.post; line 150: session.get
Method(fn) == IF fn = "generate_content" THEN "POST" ELSE "GET"

Events == {Status(200), Status(404), Status(500), Status(503),
           ConnectError, ConnectTimeout, ReadTimeout}

Scripts == [1..MaxAttempts -> Events]

Opt(k, vals) == {EmptyDict} \cup {k :> v : v \in vals}

\* the documents of the generation backend: each of the four places the text
\* may be in present or absent, choices also empty or without message.content
GenBodies ==
    {[id |-> "gen"] @@ a @@ b @@ c @@ d :
        a \in Opt("choices", {<<>>,
                              <<[message |-> [role |-> "assistant", content |-> <<"X">>]]>>,
                              <<[finish_reason |-> "error"]>>}),
        b \in Opt("response", {<<"R">>}),
        c \in Opt("text", {<<"T">>}),
        d \in Opt("content", {<<"C">>})}

Image == [previewURL |-> "p", pageURL |-> "u", tags |-> "g"]

PixabayBodies == {[total |-> 0], [total |-> 0, hits |-> <<>>], [total |-> 1, hits |-> <<Image>>]}

\* session.post / session.get left a 2xx response
GotDocument == callSend.kind = "response" /\ ~IsErrorStatus(callSend.status)

\* lines 149 and 193: the call starts by creating its session
CallEnter ==
    /\ callPc = "idle"
    /\ callCount < MaxCalls
    /\ \E fn \in AdapterFns, script \in Scripts :
         /\ callFn' = fn
         /\ callScript' = script
    /\ sessions' = Append(sessions, "open")
    /\ callRetry' = retry_total
    /\ callAttempts' = 0
    /\ callPc' = "send"
    /\ UNCHANGED <<callBody, callSend, callReturn, callCount>>
    /\ UNCHANGED <<pipeVars, exVars, mainVars>>

\* one request of session.post (line 194) or session.get (line 150) reaches the
\* backend, and the Retry object decides what follows
CallAttempt ==
    /\ callPc = "send"
    /\ callAttempts < Len(callScript)
    /\ LET d == RetryDecision(Method(callFn), callRetry, callScript[callAttempts + 1])
       IN  /\ callAttempts' = callAttempts + 1
           /\ callRetry' = d.total
           /\ IF d.next = "retry"
              THEN UNCHANGED <<callPc, callSend>>
              ELSE /\ callSend' = [kind |-> d.next, status |-> d.status, exc |-> d.exc,
                                   attempts |-> callAttempts + 1]
                   /\ callPc' = "handle"
    /\ UNCHANGED <<callFn, callScript, callBody, callReturn, sessions, callCount>>
    /\ UNCHANGED <<pipeVars, exVars, mainVars>>

\* the rest of the try block and the except clauses: lines 200-221 and 155-160
CallHandle ==
    /\ callPc = "handle"
    /\ IF callFn = "generate_content"
       THEN \E body \in (IF GotDocument THEN GenBodies ELSE {ErrorBody}) :
              /\ callBody' = body
              /\ callReturn' = GenerateReturn(callSend, body)
       ELSE \E body \in (IF GotDocument THEN PixabayBodies ELSE {ErrorBody}) :
              /\ callBody' = body
              /\ callReturn' = [ok |-> TRUE, value |-> PixabayReturn(callSend, body),
                                error |-> NoError]
    /\ callPc' = "finally"
    /\ UNCHANGED <<callFn, callScript, callAttempts, callRetry, callSend, sessions,
                   callCount>>
    /\ UNCHANGED <<pipeVars, exVars, mainVars>>

\* a call that leaves without closing its session
session_left_open(ss, i) == ss

\* session.close() on the i-th session created, lines 163 and 224
session_close(ss, i) == [ss EXCEPT ![i] = "closed"]

\* the finally clauses, lines 161-163 and 222-224: the call's session exists
\* and is closed
CallFinally ==
    /\ callPc = "finally"
    /\ sessions' = session_close(sessions, Len(sessions))
    /\ callPc' = "returned"
    /\ UNCHANGED <<callFn, callScript, callBody, callAttempts, callRetry, callSend,
                   callReturn, callCount>>
    /\ UNCHANGED <<pipeVars, exVars, mainVars>>

\* the caller has the result and goes on
CallLeave ==
    /\ callPc = "returned"
    /\ callCount' = callCount + 1
    /\ callPc' = "idle"
    /\ callFn' = "none" /\ callScript' = <<>> /\ callBody' = ErrorBody
    /\ callAttempts' = 0 /\ callRetry' = retry_total
    /\ callSend' = NoSend /\ callReturn' = NoReturn
    /\ UNCHANGED sessions
    /\ UNCHANGED <<pipeVars, exVars, mainVars>>

CallNext ==
    \/ CallEnter
    \/ CallAttempt
    \/ CallHandle
    \/ CallFinally
    \/ CallLeave

CallSpec == Init /\ [][CallNext]_vars

----------------------------------------------------------------------------
(* Properties of a call through the session *)

\* session.post / session.get is over
Sent == callPc \in {"handle", "finally", "returned"}

ScriptStarts(prefix) == SubSeq(callScript, 1, Len(prefix)) = prefix

\* C8: a request through the session is attempted at most 3 times, and after a
\* response only when its status is 500, 502, 503 or 504; a backend answering
\* 503, 503, 200 gets the caller the 200 response, one answering 503 three
\* times makes the call fail after the third attempt; for GET and POST alike
C8_AtMostThreeAttempts ==
    Sent =>
        /\ callAttempts <= 3
        /\ \A i \in 1..(callAttempts - 1) :
              callScript[i].kind = "status" => callScript[i].code \in status_forcelist
        /\ ScriptStarts(<<Status(503), Status(503), Status(200)>>) =>
              callSend.kind = "response" /\ callSend.status = 200
        /\ ScriptStarts(<<Status(503), Status(503), Status(503)>>) =>
              callSend.kind = "raise" /\ callAttempts = 3

\* generate_content has handled a 2xx response
Generated ==
    /\ callFn = "generate_content"
    /\ callPc \in {"finally", "returned"}
    /\ GotDocument

\* the first element of choices holds message.content
HasChoiceContent(body) ==
    /\ "choices" \in DOMAIN body
    /\ Len(body.choices) > 0
    /\ "message" \in DOMAIN body.choices[1]
    /\ "content" \in DOMAIN body.choices[1].message

\* the text the first matching strategy finds, in the order choices[0].message.content,
\* response, text, content; <<>> when none matches
FirstMatch(body) ==
    IF HasChoiceContent(body) THEN <<body.choices[1].message.content>>
    ELSE IF "response" \in DOMAIN body THEN <<body.response>>
    ELSE IF "text" \in DOMAIN body THEN <<body.text>>
    ELSE IF "content" \in DOMAIN body THEN <<body.content>>
    ELSE <<>>

\* C9: on a successful response generate_content returns the text of the first
\* strategy that matches, in the order choices[0].message.content, response,
\* text, content; when none matches it fails with the unexpected-format error
\* that carries the raw response
C9_FirstMatchingStrategy ==
    Generated =>
        IF FirstMatch(callBody) # <<>>
        THEN callReturn.ok /\ callReturn.value = FirstMatch(callBody)[1]
        ELSE /\ ~callReturn.ok
             /\ Lit("Unexpected API response format: ") \in Range(callReturn.error.msg)
             /\ Json(callBody) \in Range(callReturn.error.msg)

\* what made a generate_content call fail: the connection, the expired timeout
\* (while connecting or while reading), another transport failure, or a
\* document with none of the four shapes
Cause ==
    IF callSend.kind = "raise"
    THEN CASE callSend.exc = "ConnectionError" -> "connection"
           [] callSend.exc \in {"ConnectTimeout", "ReadTimeout"} -> "timeout"
           [] OTHER -> "transport"
    ELSE IF IsErrorStatus(callSend.status) THEN "transport"
    ELSE IF FirstMatch(callBody) = <<>> /\ ~("choices" \in DOMAIN callBody /\ Len(callBody.choices) > 0)
    THEN "shape"
    ELSE "other"

\* the kind a caller can tell from the exception it catches: the class is
\* Exception for all of them, so the kind is what the message says
ErrorKind(e) ==
    CASE e.msg[1] = Lit("Network connection error. Please check your internet connection and try again.")
            -> "NetworkError"
      [] e.msg[1] = Lit("Request timed out. Please try again.") -> "TimeoutError"
      [] e.msg[1] = Lit("Error making request: ") -> "RequestError"
      [] Lit("Unexpected API response format: ") \in Range(e.msg) -> "UnexpectedResponseShape"
      [] OTHER -> "Other"

KindOfCause(c) ==
    CASE c = "connection" -> "NetworkError"
      [] c = "timeout"    -> "TimeoutError"
      [] c = "transport"  -> "RequestError"
      [] c = "shape"      -> "UnexpectedResponseShape"

\* C10: a failure of generate_content is reported as the kind of its cause, a
\* connection failure as NetworkError, an expired timeout as TimeoutError,
\* another transport failure as RequestError, an unrecognized response shape as
\* UnexpectedResponseShape, so that no two causes share a kind
C10_KindFollowsCause ==
    (callFn = "generate_content" /\ callPc \in {"finally", "returned"}
        /\ ~callReturn.ok /\ Cause # "other") =>
            ErrorKind(callReturn.error) = KindOfCause(Cause)

\* calls that have created their session: the finished ones and the one under way
CallsEntered == callCount + (IF callPc = "idle" THEN 0 ELSE 1)

\* C13: every call of generate_content and search_pixabay creates one session
\* of its own and closes it before it returns or raises, whatever the outcome:
\* there are as many sessions as calls, and the only session that can be open
\* is that of a call that has not yet reached its end
C13_SessionPerCallClosed ==
    /\ Len(sessions) = CallsEntered
    /\ \A i \in 1..Len(sessions) :
          sessions[i] = "open" =>
              i = Len(sessions) /\ callPc \in {"send", "handle", "finally"}

\* a second call has failed and is about to hand its exception to the caller
C13_Witness ==
    /\ callPc = "returned"
    /\ callCount = 1
    /\ ~callReturn.ok
    /\ sessions = <<"closed", "closed">>

----------------------------------------------------------------------------
(* main's "Generate Content Calendar" handler and its timer thread, lines 396-423
   and 600-603 *)

\* timer_container.text(...): lines 409 and 423; timer_container.empty(): line 603
ElapsedText(secs) == [kind |-> "elapsed", secs |-> secs]
TotalText(secs)   == [kind |-> "total", secs |-> secs]
Emptied           == [kind |-> "empty"]

\* what create_content_calendar hands back to main: one of its two records,
\* the run having taken secs half seconds
RunResults(secs) == {[execution_time |-> secs], [error |-> "e"]}

\* time passes
Elapse ==
    /\ wall < MaxWall
    /\ wall' = wall + 1
    /\ UNCHANGED <<mainPc, main_start_time, main_result, timerPc, elapsed, timerWake,
                   timer_container, timerWrites>>
    /\ UNCHANGED <<pipeVars, exVars, callVars>>

\* lines 403-414: the start time is taken and the daemon thread is started
StartTimer ==
    /\ mainPc = "idle"
    /\ main_start_time' = wall
    /\ timerPc' = "elapsed"
    /\ mainPc' = "run"
    /\ UNCHANGED <<main_result, wall, elapsed, timerWake, timer_container, timerWrites>>
    /\ UNCHANGED <<pipeVars, exVars, callVars>>

\* line 416: create_content_calendar returns
RunReturns ==
    /\ mainPc = "run"
    /\ \E r \in RunResults(wall - main_start_time) : main_result' = r
    /\ mainPc' = "returned"
    /\ UNCHANGED <<main_start_time, wall, timerPc, elapsed, timerWake, timer_container,
                   timerWrites>>
    /\ UNCHANGED <<pipeVars, exVars, callVars>>

\* lines 418-423 and 600-603: the total time is shown, or the element emptied
ShowOutcome ==
    /\ mainPc = "returned"
    /\ timer_container' = IF "error" \notin DOMAIN main_result
                          THEN TotalText(main_result.execution_time)
                          ELSE Emptied
    /\ mainPc' = "end"
    /\ UNCHANGED <<main_start_time, main_result, wall, timerPc, elapsed, timerWake,
                   timerWrites>>
    /\ UNCHANGED <<pipeVars, exVars, callVars>>

\* line 408, in the loop of line 407, which has no exit
TimerElapsed ==
    /\ timerPc = "elapsed"
    /\ timerWrites < MaxTicks
    /\ elapsed' = wall - main_start_time
    /\ timerPc' = "text"
    /\ UNCHANGED <<mainPc, main_start_time, main_result, wall, timerWake, timer_container,
                   timerWrites>>
    /\ UNCHANGED <<pipeVars, exVars, callVars>>

\* line 409
TimerText ==
    /\ timerPc = "text"
    /\ timer_container' = ElapsedText(elapsed)
    /\ timerWrites' = timerWrites + 1
    /\ timerWake' = wall + 1
    /\ timerPc' = "sleep"
    /\ UNCHANGED <<mainPc, main_start_time, main_result, wall, elapsed>>
    /\ UNCHANGED <<pipeVars, exVars, callVars>>

\* line 410: time.sleep(0.5), then the loop goes round
TimerSleep ==
    /\ timerPc = "sleep"
    /\ wall >= timerWake
    /\ timerPc' = "elapsed"
    /\ UNCHANGED <<mainPc, main_start_time, main_result, wall, elapsed, timerWake,
                   timer_container, timerWrites>>
    /\ UNCHANGED <<pipeVars, exVars, callVars>>

MainNext ==
    \/ Elapse
    \/ StartTimer
    \/ RunReturns
    \/ ShowOutcome
    \/ TimerElapsed
    \/ TimerText
    \/ TimerSleep

MainSpec == Init /\ [][MainNext]_vars

\* C12: the timer thread is cancelled when the run completes: once
\* create_content_calendar has returned, update_timer updates the timer element
\* no more, and what main writes there at the end is never overwritten
C12_TimerStopsWhenRunReturns ==
    [][ /\ mainPc \in {"returned", "end"} => timerWrites' = timerWrites
        /\ mainPc = "end" => timer_container' = timer_container ]_vars

====
